---- MODULE Spec2Model ----
(***************************************************************************)
(* Gravity Runner (src/ui/main_ui.py): the simulation core of the game     *)
(* loop GameManager.run -- handle_events, update, clock.tick -- as a state *)
(* machine.                                                                *)
(*                                                                         *)
(* Arithmetic.  The program computes score, game_speed, obstacle_frequency *)
(* and the obstacles' x in Python floats.  The model holds them as exact   *)
(* rationals with fixed denominators (below), chosen so that every value   *)
(* the program computes is represented without rounding; the rounding      *)
(* error of IEEE doubles (relative error about 1e-16 per operation) is not *)
(* modelled.  Player coordinates are integers in the program as well.      *)
(*   score               integer multiples of 1/ScoreDen  (0.05 = 1/20)    *)
(*   game_speed, speed   integer multiples of 1/PxDen px  (4e-7 px)        *)
(*   obstacle x          [px, fr]: px + fr/PxDen, 0 <= fr < PxDen          *)
(*   obstacle_frequency  integer multiples of 1/FreqDen ms (0.1 ms)        *)
(*   clock               integer milliseconds (pygame.time.get_ticks)      *)
(***************************************************************************)
EXTENDS Integers, Sequences, FiniteSets

\* ---------------------------------------------------------------- constants
SCREEN_WIDTH == 800
GROUND_HEIGHT == 350
AIR_HEIGHT == 150
PLAYER_WIDTH == 30
PLAYER_HEIGHT == 80
OBSTACLE_WIDTH == 30
OBSTACLE_HEIGHT == 80
PLAYER_X == 100
GAME_SPEED_INITIAL == 5
OBSTACLE_FREQUENCY_INITIAL == 1000
OBSTACLE_FREQUENCY_MIN == 500
OBSTACLE_DISTANCE_MIN == 300
OBSTACLE_DISTANCE_MAX == 600
TRANSITION_SPEED == 15
SPEED_SCALE_DIVISOR == 500
FREQUENCY_DECAY == 2
FPS == 60

\* denominators of the fixed-point representation
ScoreDen == 20
PxDen == 2500000
FreqDen == 10

\* SCORE_INCREMENT = 0.05 = 1/ScoreDen
SCORE_INCREMENT == 1
\* GAME_SPEED_INCREMENT = 0.004 = 10000/PxDen
GAME_SPEED_INCREMENT == 10000

\* ------------------------------------------------------------------- bounds
\* pygame.time.get_ticks() counts from pygame.init() (line 26); BootMs is its
\* value in the first frame, after the display, the font and the background
\* image have been set up
BootMs == 1020
\* the clock is followed up to MaxTime ms (Spec) or MaxLongTime ms (SpecLong)
MaxTime == 3400
MaxLongTime == 88000
\* ... or MaxConfigTime ms (SpecConfig)
MaxConfigTime == 2100
\* at most MaxIdleFrames frames in a row are followed while the run is not in
\* progress (start screen, game over)
MaxIdleFrames == 1

\* ------------------------------------------------------------------ helpers
Min(a, b) == IF a < b THEN a ELSE b
Max(a, b) == IF a > b THEN a ELSE b

\* fixed-point numbers [px, fr] = px + fr/PxDen
FxInt(n) == [px |-> n, fr |-> 0]
FxAddInt(a, n) == [px |-> a.px + n, fr |-> a.fr]
\* a - s/PxDen
FxSubUnits(a, s) ==
    [px |-> a.px + ((a.fr - s) \div PxDen), fr |-> (a.fr - s) % PxDen]
FxLess(a, b) == a.px < b.px \/ (a.px = b.px /\ a.fr < b.fr)
FxMax(a, b) == IF FxLess(a, b) THEN b ELSE a
\* int(): truncation toward zero
FxTrunc(a) == IF a.px >= 0 \/ a.fr = 0 THEN a.px ELSE a.px + 1

Last(q) == q[Len(q)]

\* the distances the model draws for random.randint(DISTANCE_MIN, DISTANCE_MAX)
Draws == {OBSTACLE_DISTANCE_MIN, OBSTACLE_DISTANCE_MAX}

\* the time between two frames at 60 FPS, in whole milliseconds
FrameMs == (1000 \div FPS) + 1

\* -------------------------------------------------------------------- state
VARIABLES
    state,      \* GameManager.state: the GameState object
    player,     \* GameManager.player: the Player object
    obstacles,  \* GameManager.obstacles: list of Obstacle objects
    now,        \* the value pygame.time.get_ticks() returns in this frame
    pc,         \* position in the loop of GameManager.run
    serial,     \* number of Obstacle objects created so far (object identity)
    ev,         \* history: what the last step did
    run,        \* history: the current run (its start, its spawns)
    config      \* the module-level constants that are varied (SpecConfig)

vars == <<state, player, obstacles, now, pc, serial, ev, run, config>>

\* the configuration the source sets, lines 42, 43 and 45
SourceConfig ==
    [ OBSTACLE_DISTANCE_MIN |-> OBSTACLE_DISTANCE_MIN,
      OBSTACLE_DISTANCE_MAX |-> OBSTACLE_DISTANCE_MAX,
      TRANSITION_SPEED      |-> TRANSITION_SPEED ]

\* faulty variant of GameState_reset: the score is carried over
GameState_reset_KeepScore(st) ==
    [st EXCEPT !.game_over = FALSE,
               !.has_started = FALSE,
               !.game_speed = GAME_SPEED_INITIAL * PxDen,
               !.obstacle_frequency = OBSTACLE_FREQUENCY_INITIAL * FreqDen,
               !.last_obstacle_time = 0]

\* ---------------------------------------------------------------- GameState
GameState_reset(st) ==
    [st EXCEPT !.game_over = FALSE,
               !.has_started = FALSE,
               !.score = 0,
               !.game_speed = GAME_SPEED_INITIAL * PxDen,
               !.obstacle_frequency = OBSTACLE_FREQUENCY_INITIAL * FreqDen,
               !.last_obstacle_time = 0]

\* GameState(): an object whose fields are set by reset()
GameState_init ==
    GameState_reset([ game_over |-> FALSE, has_started |-> FALSE, score |-> 0,
                      game_speed |-> 0, obstacle_frequency |-> 0,
                      last_obstacle_time |-> 0 ])

\* the run's phase, read from the two flags
Phase(st) ==
    IF st.game_over THEN "GAME_OVER"
    ELSE IF st.has_started THEN "RUNNING"
    ELSE "NOT_STARTED"

\* ------------------------------------------------------------------- Player
Player_init ==
    [ width    |-> PLAYER_WIDTH,
      height   |-> PLAYER_HEIGHT,
      x        |-> PLAYER_X,
      y        |-> GROUND_HEIGHT - PLAYER_HEIGHT,
      in_air   |-> FALSE,
      target_y |-> GROUND_HEIGHT - PLAYER_HEIGHT ]

Player_target(p) ==
    IF p.in_air THEN AIR_HEIGHT ELSE GROUND_HEIGHT - p.height

\* faulty variant of Player_step: the player moves by half the step
Player_step_Slow(y, target) ==
    IF y < target THEN Min(target, y + config.TRANSITION_SPEED \div 2)
    ELSE IF y > target THEN Max(target, y - config.TRANSITION_SPEED \div 2)
    ELSE y

\* faulty variant of Player_step: the player jumps to the target lane at once
Player_step_Jump(y, target) == target

Player_step(y, target) ==
    IF y < target THEN Min(target, y + config.TRANSITION_SPEED)
    ELSE IF y > target THEN Max(target, y - config.TRANSITION_SPEED)
    ELSE y

Player_update(p) ==
    [p EXCEPT !.target_y = Player_target(p),
              !.y = Player_step(p.y, Player_target(p))]

\* pygame.Rect(x, y, w, h): integer coordinates
Player_get_rect(p) == [x |-> p.x, y |-> p.y, w |-> p.width, h |-> p.height]

\* ----------------------------------------------------------------- Obstacle
\* faulty variant of Obstacle_init: every obstacle is put on the ground
Obstacle_init_SameLane(id, speed, is_air_obstacle) ==
    [ id              |-> id,
      width           |-> OBSTACLE_WIDTH,
      height          |-> OBSTACLE_HEIGHT,
      x               |-> FxInt(SCREEN_WIDTH),
      is_air_obstacle |-> is_air_obstacle,
      y               |-> GROUND_HEIGHT - OBSTACLE_HEIGHT,
      speed           |-> speed ]

Obstacle_init(id, speed, is_air_obstacle) ==
    [ id              |-> id,
      width           |-> OBSTACLE_WIDTH,
      height          |-> OBSTACLE_HEIGHT,
      x               |-> FxInt(SCREEN_WIDTH),
      is_air_obstacle |-> is_air_obstacle,
      y               |-> IF is_air_obstacle THEN AIR_HEIGHT
                          ELSE GROUND_HEIGHT - OBSTACLE_HEIGHT,
      speed           |-> speed ]

\* faulty variant of Obstacle_update: the obstacle moves to the right
Obstacle_update_Backwards(o) == [o EXCEPT !.x = FxSubUnits(o.x, 0 - o.speed)]

Obstacle_update(o) == [o EXCEPT !.x = FxSubUnits(o.x, o.speed)]

\* pygame.Rect truncates the float x toward zero
Obstacle_get_rect(o) ==
    [x |-> FxTrunc(o.x), y |-> o.y, w |-> o.width, h |-> o.height]

\* faulty variant of Obstacle_is_off_screen: the width is left out
Obstacle_is_off_screen_NoWidth(o) == FxLess(o.x, FxInt(0))

Obstacle_is_off_screen(o) == FxLess(FxAddInt(o.x, o.width), FxInt(0))

\* faulty variant of colliderect: rectangles that only touch collide as well
colliderect_Touching(a, b) ==
    /\ a.x <= b.x + b.w
    /\ a.y <= b.y + b.h
    /\ a.x + a.w >= b.x
    /\ a.y + a.h >= b.y

\* pygame.Rect.colliderect: the rectangles overlap; touching edges do not
colliderect(a, b) ==
    /\ a.x < b.x + b.w
    /\ a.y < b.y + b.h
    /\ a.x + a.w > b.x
    /\ a.y + a.h > b.y

\* -------------------------------------------------------------- GameManager
\* update, lines 217-220: move every obstacle, drop those off screen
UpdateObstacles(obs) ==
    LET moved == [i \in 1..Len(obs) |-> Obstacle_update(obs[i])]
        Keep(o) == ~Obstacle_is_off_screen(o)
    IN SelectSeq(moved, Keep)

\* faulty variant of check_collisions: a hit sends the game back to the start screen
check_collisions_ToStart(st, p, obs) ==
    IF \E i \in 1..Len(obs) :
          colliderect(Player_get_rect(p), Obstacle_get_rect(obs[i]))
    THEN [st EXCEPT !.game_over = TRUE, !.has_started = FALSE]
    ELSE st

check_collisions(st, p, obs) ==
    IF \E i \in 1..Len(obs) :
          colliderect(Player_get_rect(p), Obstacle_get_rect(obs[i]))
    THEN [st EXCEPT !.game_over = TRUE]
    ELSE st

\* faulty variant of SpawnX: the new obstacle is not kept off the screen
SpawnX_NoClamp(obs, d) ==
    IF obs # <<>>
    THEN FxAddInt(obs[Len(obs)].x, d)
    ELSE FxInt(SCREEN_WIDTH)

\* faulty variant of SpawnX: the distance is taken from the oldest obstacle
SpawnX_FromFirst(obs, d) ==
    IF obs # <<>>
    THEN FxMax(FxInt(SCREEN_WIDTH), FxAddInt(obs[1].x, d))
    ELSE FxInt(SCREEN_WIDTH)

\* faulty variant of SpawnX: every obstacle is created at the right edge
SpawnX_AtEdge(obs, d) == FxInt(SCREEN_WIDTH)

\* x of the new obstacle; d is the distance random.randint draws
SpawnX(obs, d) ==
    IF obs # <<>>
    THEN FxMax(FxInt(SCREEN_WIDTH), FxAddInt(obs[Len(obs)].x, d))
    ELSE FxInt(SCREEN_WIDTH)

\* faulty variant of generate_obstacle: the new obstacle is put in front of the list
generate_obstacle_Front(obs, id, game_speed, is_air_obstacle, d) ==
    <<[Obstacle_init(id, game_speed, is_air_obstacle)
         EXCEPT !.x = SpawnX(obs, d)]>> \o obs

generate_obstacle(obs, id, game_speed, is_air_obstacle, d) ==
    Append(obs, [Obstacle_init(id, game_speed, is_air_obstacle)
                   EXCEPT !.x = SpawnX(obs, d)])

\* update, line 227: is a spawn due at current_time
SpawnDue(st, current_time) ==
    (current_time - st.last_obstacle_time) * FreqDen > st.obstacle_frequency

\* update, lines 232-233
NextGameSpeed(st) ==
    st.game_speed
      + (GAME_SPEED_INCREMENT * (SPEED_SCALE_DIVISOR * ScoreDen + st.score))
          \div (SPEED_SCALE_DIVISOR * ScoreDen)

\* faulty variant of NextScore: the score grows with the speed gained so far
NextScore_BySpeed(st) ==
    st.score + SCORE_INCREMENT
      + (st.game_speed - GAME_SPEED_INITIAL * PxDen) \div GAME_SPEED_INCREMENT

\* update, line 234
NextScore(st) == st.score + SCORE_INCREMENT

\* faulty variant of NextFrequency: the interval keeps shrinking, without the floor
NextFrequency_NoFloor(score) ==
    OBSTACLE_FREQUENCY_INITIAL * FreqDen
      - (score * FREQUENCY_DECAY * FreqDen) \div ScoreDen

\* update, lines 237-238
NextFrequency(score) ==
    Max(OBSTACLE_FREQUENCY_MIN * FreqDen,
        OBSTACLE_FREQUENCY_INITIAL * FreqDen
          - (score * FREQUENCY_DECAY * FreqDen) \div ScoreDen)

\* update, lines 231-238
Difficulty(st) ==
    [st EXCEPT !.game_speed = NextGameSpeed(st),
               !.score = NextScore(st),
               !.obstacle_frequency = NextFrequency(NextScore(st))]

\* the game objects a handler works on: g = [state, player, obstacles]
reset_game(g) ==
    [g EXCEPT !.state = GameState_reset(g.state),
              !.player = Player_init,
              !.obstacles = <<>>]

\* handle_events, lines 195-196 and 198-199: reset, then mark the run started
ResetPath(g) ==
    LET r == reset_game(g) IN [r EXCEPT !.state.has_started = TRUE]

\* the events of one frame: QUIT, or KEYDOWN of the named key
EventKinds == {"QUIT", "K_ESCAPE", "K_SPACE", "K_OTHER"}

\* the event queues the model feeds to one frame
EventQueues ==
    {<<>>} \cup {<<e>> : e \in EventKinds} \cup {<<"K_SPACE", "K_SPACE">>}

\* handle_events, lines 187-199: one event.  r = [g, exited, resets]
HandleEvent(r, e) ==
    IF r.exited THEN r
    ELSE IF e \in {"QUIT", "K_ESCAPE"} THEN [r EXCEPT !.exited = TRUE]
    ELSE IF e = "K_SPACE" /\ r.g.state.game_over
         THEN [r EXCEPT !.g = ResetPath(r.g), !.resets = r.resets + 1]
    ELSE IF e = "K_SPACE" /\ ~r.g.state.has_started
         THEN [r EXCEPT !.g = ResetPath(r.g), !.resets = r.resets + 1]
    ELSE r

\* handle_events, line 186: the loop over the events of the frame
RECURSIVE ProcessEvents(_, _)
ProcessEvents(r, q) ==
    IF q = <<>> THEN r
    ELSE ProcessEvents(HandleEvent(r, Head(q)), Tail(q))

\* run, line 317: clock.tick(60) waits for the next frame
ClockTick(t) == t + FrameMs

Game == [state |-> state, player |-> player, obstacles |-> obstacles]

\* ---------------------------------------------------------------- behaviour
NoEvent(op) ==
    [op |-> op, phase0 |-> "NOT_STARTED", reset |-> FALSE, spawned |-> FALSE,
     pruned |-> 0, y0 |-> GROUND_HEIGHT - PLAYER_HEIGHT,
     t0 |-> GROUND_HEIGHT - PLAYER_HEIGHT, ticks |-> 0, idle |-> 0]

\* no obstacle has been created in this run
NoSpawnX == FxInt(0)

\* the run that starts at time t: no spawn yet
NewRun(t) ==
    [start |-> t, nspawn |-> 0, x_at_spawn |-> NoSpawnX,
     prev_x_at_spawn |-> NoSpawnX]

\* GameManager.__init__, lines 175-178
Init ==
    /\ state = GameState_init
    /\ player = Player_init
    /\ obstacles = <<>>
    /\ now = BootMs
    /\ pc = "handle_events"
    /\ serial = 0
    /\ ev = NoEvent("init")
    /\ run = NewRun(BootMs)
    /\ config = SourceConfig

\* sys.exit(), lines 188-189 and 192-193: the program ends where it is; the
\* behaviour takes no further step
Exited == UNCHANGED vars

\* handle_events: the frame's events are `q`, the space key is held iff `keys`
HandleEvents(queues, keyStates) ==
    /\ pc = "handle_events"
    /\ \E q \in queues, keys \in keyStates :
         LET r == ProcessEvents([g |-> Game, exited |-> FALSE, resets |-> 0], q)
         IN IF r.exited THEN Exited
            ELSE /\ state' = r.g.state
                 /\ obstacles' = r.g.obstacles
                 /\ player' = [r.g.player EXCEPT !.in_air = keys]
                 /\ pc' = "update"
                 /\ ev' = [op |-> "handle_events", phase0 |-> Phase(state),
                           reset |-> r.resets > 0, spawned |-> FALSE, pruned |-> 0,
                           y0 |-> player.y, t0 |-> player.target_y,
                           ticks |-> IF r.resets > 0 THEN 0 ELSE ev.ticks,
                           idle |-> IF r.resets > 0 THEN 0 ELSE ev.idle]
                 /\ run' = IF r.resets > 0 THEN NewRun(now) ELSE run
                 /\ UNCHANGED <<now, serial, config>>

\* faulty variant of UpdateIdle: no early return, the player keeps moving
UpdateIdle_PlayerMoves(maxIdle, maxTime) ==
    /\ pc = "update"
    /\ ~state.has_started \/ state.game_over
    /\ ev.idle < maxIdle
    /\ ClockTick(now) <= maxTime
    /\ now' = ClockTick(now)
    /\ pc' = "handle_events"
    /\ player' = Player_update(player)
    /\ ev' = [op |-> "update", phase0 |-> Phase(state), reset |-> FALSE,
              spawned |-> FALSE, pruned |-> 0, y0 |-> player.y,
              t0 |-> player.target_y, ticks |-> ev.ticks, idle |-> ev.idle + 1]
    /\ UNCHANGED <<state, obstacles, serial, run, config>>

\* update, lines 208-211, when the run is not in progress; then clock.tick
UpdateIdle(maxIdle, maxTime) ==
    /\ pc = "update"
    /\ ~state.has_started \/ state.game_over
    /\ ev.idle < maxIdle
    /\ ClockTick(now) <= maxTime
    /\ now' = ClockTick(now)
    /\ pc' = "handle_events"
    /\ ev' = [op |-> "update", phase0 |-> Phase(state), reset |-> FALSE,
              spawned |-> FALSE, pruned |-> 0, y0 |-> player.y,
              t0 |-> player.target_y, ticks |-> ev.ticks, idle |-> ev.idle + 1]
    /\ UNCHANGED <<state, player, obstacles, serial, run, config>>

\* faulty variant of UpdateRunning: speed and interval are evaluated and the obstacle
\* is spawned before the obstacles move and the collisions are checked
UpdateRunning_SpawnFirst(kinds, draws, maxTime) ==
    /\ pc = "update"
    /\ state.has_started /\ ~state.game_over
    /\ ClockTick(now) <= maxTime
    /\ LET p1 == Player_update(player)
           st0 == [state EXCEPT !.game_speed = NextGameSpeed(state),
                                !.obstacle_frequency = NextFrequency(state.score)]
           due == SpawnDue(st0, now)
       IN \E is_air \in (IF due THEN kinds ELSE {FALSE}),
             d \in (IF due /\ obstacles # <<>> THEN draws ELSE {OBSTACLE_DISTANCE_MIN}) :
            LET obs1 == IF due
                        THEN generate_obstacle(obstacles, serial + 1, st0.game_speed, is_air, d)
                        ELSE obstacles
                obs2 == UpdateObstacles(obs1)
                st1 == IF due THEN [st0 EXCEPT !.last_obstacle_time = now] ELSE st0
                st2 == check_collisions(st1, p1, obs2)
            IN /\ player' = p1
               /\ obstacles' = obs2
               /\ state' = [st2 EXCEPT !.score = NextScore(st2)]
               /\ serial' = IF due THEN serial + 1 ELSE serial
               /\ ev' = [op |-> "update", phase0 |-> "RUNNING", reset |-> FALSE,
                         spawned |-> due, pruned |-> Len(obs1) - Len(obs2),
                         y0 |-> player.y, t0 |-> player.target_y,
                         ticks |-> ev.ticks + 1, idle |-> 0]
               /\ run' = IF due
                         THEN [run EXCEPT !.nspawn = run.nspawn + 1,
                                          !.x_at_spawn = Last(obs1).x,
                                          !.prev_x_at_spawn = run.x_at_spawn]
                         ELSE run
    /\ now' = ClockTick(now)
    /\ pc' = "handle_events"
    /\ UNCHANGED config

\* update, lines 213-241, in a run; then clock.tick.  `kinds` and `draws` are
\* the values random.choice and random.randint may return
UpdateRunning(kinds, draws, maxTime) ==
    /\ pc = "update"
    /\ state.has_started /\ ~state.game_over
    /\ ClockTick(now) <= maxTime
    /\ LET p1 == Player_update(player)
           obs1 == UpdateObstacles(obstacles)
           st1 == check_collisions(state, p1, obs1)
           due == SpawnDue(st1, now)
       IN \E is_air \in (IF due THEN kinds ELSE {FALSE}),
             d \in (IF due /\ obs1 # <<>> THEN draws ELSE {OBSTACLE_DISTANCE_MIN}) :
            LET obs2 == IF due
                        THEN generate_obstacle(obs1, serial + 1, st1.game_speed, is_air, d)
                        ELSE obs1
                st2 == IF due THEN [st1 EXCEPT !.last_obstacle_time = now] ELSE st1
            IN /\ player' = p1
               /\ obstacles' = obs2
               /\ state' = Difficulty(st2)
               /\ serial' = IF due THEN serial + 1 ELSE serial
               /\ ev' = [op |-> "update", phase0 |-> "RUNNING", reset |-> FALSE,
                         spawned |-> due, pruned |-> Len(obstacles) - Len(obs1),
                         y0 |-> player.y, t0 |-> player.target_y,
                         ticks |-> ev.ticks + 1, idle |-> 0]
               /\ run' = IF due
                         THEN [run EXCEPT !.nspawn = run.nspawn + 1,
                                          !.x_at_spawn = Last(obs2).x,
                                          !.prev_x_at_spawn = run.x_at_spawn]
                         ELSE run
    /\ now' = ClockTick(now)
    /\ pc' = "handle_events"
    /\ UNCHANGED config

Next ==
    \/ HandleEvents(EventQueues, BOOLEAN)
    \/ UpdateIdle(MaxIdleFrames, MaxTime)
    \/ UpdateRunning(BOOLEAN, Draws, MaxTime)

Spec == Init /\ [][Next]_vars

\* one long run: a space keydown in every frame; the key is held down (the
\* player stays in the air) for the first LongHoldMs ms and is free after;
\* every obstacle is a ground obstacle drawn at the minimum distance
LongHoldMs == MaxLongTime - 800

NextLong ==
    \/ HandleEvents({<<"K_SPACE">>}, IF now < LongHoldMs THEN {TRUE} ELSE BOOLEAN)
    \/ UpdateRunning({FALSE}, {OBSTACLE_DISTANCE_MIN}, MaxLongTime)

SpecLong == Init /\ [][NextLong]_vars

\* the program under other values of its module-level constants: the ones the
\* source sets, the two distances exchanged, a zero and a negative step
Configs ==
    { SourceConfig,
      [SourceConfig EXCEPT !.OBSTACLE_DISTANCE_MIN = OBSTACLE_DISTANCE_MAX,
                           !.OBSTACLE_DISTANCE_MAX = OBSTACLE_DISTANCE_MIN],
      [SourceConfig EXCEPT !.TRANSITION_SPEED = 0],
      [SourceConfig EXCEPT !.TRANSITION_SPEED = 0 - TRANSITION_SPEED] }

\* random.randint(lo, hi): the model draws the two ends of the range; the
\* range is empty when lo > hi, and randint raises ValueError
DrawsOf(lo, hi) == IF lo > hi THEN {} ELSE {lo, hi}

\* GameManager.__init__ reads none of the constants
InitConfig ==
    /\ state = GameState_init
    /\ player = Player_init
    /\ obstacles = <<>>
    /\ now = BootMs
    /\ pc = "handle_events"
    /\ serial = 0
    /\ ev = NoEvent("init")
    /\ run = NewRun(BootMs)
    /\ config \in Configs

\* update, lines 213-228, when random.randint raises in generate_obstacle
\* (line 251): the player and the obstacles have moved, the collision check
\* has run, the new Obstacle is not appended, and the exception leaves update,
\* run and main: the program ends with a traceback
UpdateRaises(maxTime) ==
    /\ pc = "update"
    /\ state.has_started /\ ~state.game_over
    /\ ClockTick(now) <= maxTime
    /\ LET p1 == Player_update(player)
           obs1 == UpdateObstacles(obstacles)
           st1 == check_collisions(state, p1, obs1)
       IN /\ SpawnDue(st1, now)
          /\ obs1 # <<>>
          /\ DrawsOf(config.OBSTACLE_DISTANCE_MIN, config.OBSTACLE_DISTANCE_MAX) = {}
          /\ player' = p1
          /\ obstacles' = obs1
          /\ state' = st1
          /\ ev' = [op |-> "update", phase0 |-> "RUNNING", reset |-> FALSE,
                    spawned |-> FALSE, pruned |-> Len(obstacles) - Len(obs1),
                    y0 |-> player.y, t0 |-> player.target_y,
                    ticks |-> ev.ticks, idle |-> 0]
    /\ pc' = "ValueError"
    /\ UNCHANGED <<now, serial, run, config>>

NextConfig ==
    \/ HandleEvents({<<>>, <<"K_SPACE">>}, BOOLEAN)
    \/ UpdateIdle(MaxIdleFrames, MaxConfigTime)
    \/ UpdateRunning({FALSE},
                     DrawsOf(config.OBSTACLE_DISTANCE_MIN, config.OBSTACLE_DISTANCE_MAX),
                     MaxConfigTime)
    \/ UpdateRaises(MaxConfigTime)

SpecConfig == InitConfig /\ [][NextConfig]_vars

\* ================================================================== claims
RanUpdate == ev.op = "update" /\ ev.phase0 = "RUNNING"
GroundY == GROUND_HEIGHT - PLAYER_HEIGHT
Abs(n) == IF n < 0 THEN -n ELSE n

\* C1 -- spacing at spawn: whenever generate_obstacle has added an obstacle to
\* a non-empty collection, the new obstacle's x is at least
\* OBSTACLE_DISTANCE_MIN greater than the x the previously last obstacle (the
\* most recently spawned one) has at that moment.
C1_SpacingAtSpawn ==
    (ev.op = "update" /\ ev.spawned /\ Len(obstacles) >= 2) =>
        LET new == Last(obstacles)
            prev == obstacles[Len(obstacles) - 1]
        IN /\ new.id = serial
           /\ \A i \in 1..(Len(obstacles) - 1) : obstacles[i].id <= prev.id
           /\ ~FxLess(new.x, FxAddInt(prev.x, OBSTACLE_DISTANCE_MIN))

\* an obstacle was spawned behind another one, beyond the right edge, exactly
\* OBSTACLE_DISTANCE_MIN away from it
C1_Witness ==
    /\ ev.op = "update" /\ ev.spawned /\ Len(obstacles) >= 2
    /\ FxLess(FxInt(SCREEN_WIDTH), Last(obstacles).x)
    /\ Last(obstacles).x
         = FxAddInt(obstacles[Len(obstacles) - 1].x, OBSTACLE_DISTANCE_MIN)

\* two integer rectangles have a pixel in common
SharePixel(a, b) ==
    /\ Max(a.x, b.x) < Min(a.x + a.w, b.x + b.w)
    /\ Max(a.y, b.y) < Min(a.y + a.h, b.y + b.h)

\* C2 -- collision correctness: a RUNNING tick ends in GAME_OVER if and only
\* if, after the player and the obstacles have moved, the player's rectangle
\* overlaps the rectangle of at least one obstacle of the collection;
\* otherwise the phase stays RUNNING.
C2_CollisionCorrect ==
    RanUpdate =>
        /\ state.game_over <=>
             \E i \in 1..Len(obstacles) :
                SharePixel(Player_get_rect(player), Obstacle_get_rect(obstacles[i]))
        /\ ~state.game_over => Phase(state) = "RUNNING"

\* a RUNNING tick in which the player was hit
C2_Witness ==
    /\ RanUpdate /\ state.game_over
    /\ \E i \in 1..Len(obstacles) :
          SharePixel(Player_get_rect(player), Obstacle_get_rect(obstacles[i]))

\* C3 -- lane continuity: each Player.update changes y by at most
\* TRANSITION_SPEED, never moves y away from target_y, and never leaves y
\* strictly beyond target_y in the direction of travel, also when the signal
\* toggles before a transition has completed.
C3_LaneContinuity ==
    RanUpdate =>
        LET y0 == ev.y0
            y == player.y
            t == player.target_y
        IN /\ t = (IF player.in_air THEN AIR_HEIGHT ELSE GroundY)
           /\ Abs(y - y0) <= TRANSITION_SPEED
           /\ Abs(t - y) <= Abs(t - y0)
           /\ y0 # t => Abs(t - y) < Abs(t - y0)
           /\ y0 <= t => y <= t
           /\ y0 >= t => y >= t

\* the signal toggled while the player was between the lanes, and the update
\* turned the player round
C3_Witness ==
    /\ RanUpdate
    /\ ev.t0 # player.target_y
    /\ AIR_HEIGHT < ev.y0 /\ ev.y0 < GroundY
    /\ player.y # ev.y0

\* C4 -- monotonic difficulty: from a RUNNING state no step lowers game_speed
\* or raises obstacle_frequency (only a reset, taken from another phase, sets
\* them back), and obstacle_frequency always lies between
\* OBSTACLE_FREQUENCY_MIN and OBSTACLE_FREQUENCY_INITIAL.
C4_MonotonicDifficulty ==
    /\ [](/\ state.obstacle_frequency >= OBSTACLE_FREQUENCY_MIN * FreqDen
          /\ state.obstacle_frequency <= OBSTACLE_FREQUENCY_INITIAL * FreqDen)
    /\ [][Phase(state) = "RUNNING" =>
            /\ state'.game_speed >= state.game_speed
            /\ state'.obstacle_frequency <= state.obstacle_frequency]_vars

\* a run that goes on after the spawn interval has reached its floor
C4_Witness ==
    /\ RanUpdate /\ Phase(state) = "RUNNING"
    /\ state.obstacle_frequency = OBSTACLE_FREQUENCY_MIN * FreqDen
    /\ state.score * FREQUENCY_DECAY
         > (OBSTACLE_FREQUENCY_INITIAL - OBSTACLE_FREQUENCY_MIN) * ScoreDen
    /\ state.game_speed > GAME_SPEED_INITIAL * PxDen

\* C5 -- phase machine: the only phase changes are NOT_STARTED to RUNNING and
\* GAME_OVER to RUNNING (both by the reset path of handle_events) and RUNNING
\* to GAME_OVER (by update); has_started = FALSE with game_over = TRUE is
\* never reached.
C5_PhaseMachine ==
    /\ state.has_started \/ ~state.game_over
    /\ ev.phase0 # Phase(state) =>
         \/ /\ ev.phase0 \in {"NOT_STARTED", "GAME_OVER"}
            /\ Phase(state) = "RUNNING"
            /\ ev.op = "handle_events" /\ ev.reset
         \/ /\ ev.phase0 = "RUNNING"
            /\ Phase(state) = "GAME_OVER"
            /\ ev.op = "update"

\* a run that was lost has been started again
C5_Witness ==
    /\ ev.op = "handle_events" /\ ev.phase0 = "GAME_OVER"
    /\ Phase(state) = "RUNNING"
    /\ serial > 0

\* the phase did not change and the run is not in progress
IdleStep ==
    /\ Phase(state) \in {"NOT_STARTED", "GAME_OVER"}
    /\ Phase(state') = Phase(state)

\* C6, as claimed -- frozen when not running: a frame executed while the phase
\* is GAME_OVER or NOT_STARTED that does not start or reset the run leaves
\* the player's lane (in_air) and y, every obstacle, score, game_speed,
\* obstacle_frequency and the spawn timer unchanged.
C6_FrozenWithLane ==
    [][IdleStep => (player' = player /\ obstacles' = obstacles /\ state' = state)]_vars

\* C6, amended -- the same, except for the in_air flag, which handle_events
\* overwrites with the state of the space key in every frame.
C6_FrozenExceptInAir ==
    [][IdleStep => /\ player' = [player EXCEPT !.in_air = player'.in_air]
                   /\ obstacles' = obstacles
                   /\ state' = state]_vars

\* a frame of a lost run has passed, the key state has changed since the hit
\* and the player has not moved
C6_Witness ==
    /\ ev.op = "update" /\ ev.phase0 = "GAME_OVER" /\ ev.idle > 0
    /\ player.target_y # (IF player.in_air THEN AIR_HEIGHT ELSE GroundY)
    /\ player.y = ev.y0
    /\ obstacles # <<>>

\* C7 -- reset is idempotent and total: in every reachable state the reset
\* path yields score 0, the initial speed and spawn interval, no obstacles,
\* the player on the ground baseline and not in the air, phase RUNNING; and
\* taking it twice yields what taking it once yields.  After handle_events
\* has taken it the game is in that state, up to the sampled key.
ResetResult(r) ==
    /\ r.state.score = 0
    /\ r.state.game_speed = GAME_SPEED_INITIAL * PxDen
    /\ r.state.obstacle_frequency = OBSTACLE_FREQUENCY_INITIAL * FreqDen
    /\ r.obstacles = <<>>
    /\ r.player.y = GroundY /\ r.player.target_y = GroundY /\ ~r.player.in_air
    /\ Phase(r.state) = "RUNNING"

C7_ResetIdempotent ==
    /\ ResetResult(ResetPath(Game))
    /\ ResetPath(ResetPath(Game)) = ResetPath(Game)
    /\ (ev.op = "handle_events" /\ ev.reset) =>
          [Game EXCEPT !.player.in_air = FALSE] = ResetPath(Game)

\* the reset path has been taken from GAME_OVER
C7_Witness ==
    /\ ev.op = "handle_events" /\ ev.reset /\ ev.phase0 = "GAME_OVER"
    /\ ResetResult([Game EXCEPT !.player.in_air = FALSE])

LeftOfScreen(o) == o.x.px + o.width < 0

InCollection(o, obs) == \E j \in 1..Len(obs) : obs[j].id = o.id

\* C9 -- off-screen pruning: after a RUNNING tick no obstacle of the collection
\* has x + width < 0; a tick removes exactly the obstacles whose moved x has
\* x + width < 0, and outside a tick only a reset removes obstacles.
C9_Pruning ==
    /\ [](RanUpdate => \A i \in 1..Len(obstacles) : ~LeftOfScreen(obstacles[i]))
    /\ [][\A i \in 1..Len(obstacles) :
            IF pc = "update" /\ Phase(state) = "RUNNING"
            THEN InCollection(obstacles[i], obstacles')
                   <=> ~LeftOfScreen(Obstacle_update(obstacles[i]))
            ELSE InCollection(obstacles[i], obstacles') \/ ev'.reset]_vars

\* a tick has removed an obstacle and kept another
C9_Witness ==
    /\ RanUpdate /\ ev.pruned > 0 /\ obstacles # <<>>

\* C10, as claimed -- collision ends the tick: in a RUNNING tick in which a
\* collision is detected the score, game_speed and obstacle_frequency do not
\* change and no obstacle is spawned.
C10_CollisionEndsTick ==
    [][(pc = "update" /\ Phase(state) = "RUNNING" /\ state'.game_over) =>
          /\ state'.score = state.score
          /\ state'.game_speed = state.game_speed
          /\ state'.obstacle_frequency = state.obstacle_frequency
          /\ serial' = serial]_vars

\* a - b, for fixed-point numbers
FxSub(a, b) ==
    [px |-> a.px - b.px + ((a.fr - b.fr) \div PxDen), fr |-> (a.fr - b.fr) % PxDen]

\* the pairs <<i, j>> such that obstacles[i] before the step and obstacles'[j]
\* after it are the same object
Survivors(obs, obs2) ==
    {ij \in (1..Len(obs)) \X (1..Len(obs2)) : obs[ij[1]].id = obs2[ij[2]].id}

\* C11, as claimed -- uniform scroll speed: in every RUNNING tick every
\* obstacle that stays in the collection moves left by the global game_speed
\* (the value before or after the tick's increment), and the distance between
\* any two obstacles that stay in the collection is unchanged.
C11_UniformScroll ==
    [][(pc = "update" /\ Phase(state) = "RUNNING") =>
          \A a \in Survivors(obstacles, obstacles') :
             /\ \/ obstacles'[a[2]].x = FxSubUnits(obstacles[a[1]].x, state.game_speed)
                \/ obstacles'[a[2]].x = FxSubUnits(obstacles[a[1]].x, state'.game_speed)
             /\ \A b \in Survivors(obstacles, obstacles') :
                   FxSub(obstacles'[b[2]].x, obstacles'[a[2]].x)
                     = FxSub(obstacles[b[1]].x, obstacles[a[1]].x)]_vars

\* C12, as claimed -- spacing of spawn positions: for two obstacles spawned
\* consecutively in one run, the x at which the later one is created is at
\* least OBSTACLE_DISTANCE_MIN greater than the x at which the earlier one was
\* created.
C12_SpawnPositions ==
    (RanUpdate /\ ev.spawned /\ run.nspawn >= 2) =>
        ~FxLess(run.x_at_spawn, FxAddInt(run.prev_x_at_spawn, OBSTACLE_DISTANCE_MIN))

\* C12, amended -- the distance is kept to the x the earlier obstacle has when
\* the later one is created, if it is still in the collection; otherwise the
\* later one is created at SCREEN_WIDTH.  No obstacle is created left of
\* SCREEN_WIDTH, and the earlier obstacle is never right of its creation x.
C12_SpacingAtCreation ==
    (RanUpdate /\ ev.spawned) =>
        LET next == Last(obstacles) IN
        /\ next.id = serial
        /\ next.x = run.x_at_spawn
        /\ ~FxLess(next.x, FxInt(SCREEN_WIDTH))
        /\ IF Len(obstacles) >= 2
           THEN LET prev == obstacles[Len(obstacles) - 1] IN
                /\ prev.id = serial - 1
                /\ run.nspawn >= 2
                /\ FxLess(prev.x, run.prev_x_at_spawn)
                /\ ~FxLess(next.x, FxAddInt(prev.x, OBSTACLE_DISTANCE_MIN))
           ELSE next.x = FxInt(SCREEN_WIDTH)

\* the second obstacle of a run was created less than OBSTACLE_DISTANCE_MIN
\* right of the place where the first was created, and far enough from the
\* place the first had reached
C12_Witness ==
    /\ RanUpdate /\ ev.spawned /\ run.nspawn = 2 /\ Len(obstacles) = 2
    /\ FxLess(run.x_at_spawn, FxAddInt(run.prev_x_at_spawn, OBSTACLE_DISTANCE_MIN))
    /\ ~FxLess(obstacles[2].x, FxAddInt(obstacles[1].x, OBSTACLE_DISTANCE_MIN))

\* C13 -- obstacle immutability: no step changes the kind, y, width or height
\* of an obstacle that stays in the collection, and none moves it to the
\* right; two obstacles of the collection are never the same object; an
\* obstacle's y is the one its kind fixes.
C13_ObstacleImmutable ==
    /\ [](\A i, j \in 1..Len(obstacles) :
            /\ obstacles[i].id = obstacles[j].id => i = j
            /\ obstacles[i].width = OBSTACLE_WIDTH
            /\ obstacles[i].height = OBSTACLE_HEIGHT
            /\ obstacles[i].y = (IF obstacles[i].is_air_obstacle THEN AIR_HEIGHT
                                 ELSE GROUND_HEIGHT - OBSTACLE_HEIGHT))
    /\ [][\A a \in Survivors(obstacles, obstacles') :
            LET o == obstacles[a[1]]
                o2 == obstacles'[a[2]]
            IN /\ o2.is_air_obstacle = o.is_air_obstacle
               /\ o2.y = o.y
               /\ o2.width = o.width
               /\ o2.height = o.height
               /\ ~FxLess(o.x, o2.x)]_vars

\* an air obstacle has travelled more than half of the screen while a ground
\* obstacle was created behind it
C13_Witness ==
    /\ RanUpdate /\ Len(obstacles) >= 2
    /\ obstacles[1].is_air_obstacle /\ ~obstacles[2].is_air_obstacle
    /\ obstacles[1].y = AIR_HEIGHT
    /\ obstacles[1].x.px < SCREEN_WIDTH \div 2

\* a configuration the specification calls an error
BadConfig(c) ==
    \/ c.OBSTACLE_DISTANCE_MIN > c.OBSTACLE_DISTANCE_MAX
    \/ c.TRANSITION_SPEED <= 0

\* C14, as claimed -- configuration errors are caught at construction: with
\* OBSTACLE_DISTANCE_MIN > OBSTACLE_DISTANCE_MAX or a non-positive transition
\* step the game never reaches RUNNING, and no fault of the configuration
\* shows up in a running tick.
C14_ConfigCheckedAtConstruction ==
    BadConfig(config) => (Phase(state) # "RUNNING" /\ pc # "ValueError")

\* C15 -- spawn placement: a tick that spawns creates one obstacle and appends
\* it behind the obstacles the tick has kept; its x is SCREEN_WIDTH when the
\* collection was empty or last.x + d <= SCREEN_WIDTH, and last.x + d
\* otherwise, for a distance d of OBSTACLE_DISTANCE_MIN..OBSTACLE_DISTANCE_MAX,
\* last being the last of the kept obstacles; so SCREEN_WIDTH <= x <=
\* max(SCREEN_WIDTH, last.x + OBSTACLE_DISTANCE_MAX).  A tick that does not
\* spawn adds nothing.
C15_SpawnPlacement ==
    [][(pc = "update" /\ Phase(state) = "RUNNING") =>
          LET n == Len(obstacles')
              kept == Survivors(obstacles, obstacles')
          IN IF serial' = serial
             THEN /\ Cardinality(kept) = n
                  /\ \A a \in kept : a[2] <= a[1]
             ELSE /\ serial' = serial + 1
                  /\ n = Cardinality(kept) + 1
                  /\ \A a \in kept : a[2] < n
                  /\ obstacles'[n].id = serial'
                  /\ ~FxLess(obstacles'[n].x, FxInt(SCREEN_WIDTH))
                  /\ IF n = 1
                     THEN obstacles'[n].x = FxInt(SCREEN_WIDTH)
                     ELSE LET last == obstacles'[n - 1] IN
                          /\ \E d \in OBSTACLE_DISTANCE_MIN..OBSTACLE_DISTANCE_MAX :
                                obstacles'[n].x =
                                  (IF FxLess(FxInt(SCREEN_WIDTH), FxAddInt(last.x, d))
                                   THEN FxAddInt(last.x, d)
                                   ELSE FxInt(SCREEN_WIDTH))
                          /\ ~FxLess(FxMax(FxInt(SCREEN_WIDTH),
                                           FxAddInt(last.x, OBSTACLE_DISTANCE_MAX)),
                                     obstacles'[n].x)]_vars

\* an obstacle was created at SCREEN_WIDTH behind two others, the nearer of
\* them more than OBSTACLE_DISTANCE_MIN away
C15_Witness ==
    /\ RanUpdate /\ ev.spawned /\ Len(obstacles) >= 3
    /\ Last(obstacles).x = FxInt(SCREEN_WIDTH)
    /\ FxLess(FxAddInt(obstacles[Len(obstacles) - 1].x, OBSTACLE_DISTANCE_MIN),
              FxInt(SCREEN_WIDTH))

\* C16, as claimed -- spawn timing: a RUNNING tick spawns only if the time
\* since the previous spawn of the run, or since the start or reset of the run
\* when the run has not spawned yet, exceeds the current obstacle_frequency; a
\* tick spawns at most one obstacle and restarts the timer, and two spawns of a
\* run are more than OBSTACLE_FREQUENCY_MIN apart.
C16_SpawnTiming ==
    [][(pc = "update" /\ Phase(state) = "RUNNING" /\ serial' # serial) =>
          LET since == IF run.nspawn = 0 THEN run.start
                       ELSE state.last_obstacle_time
          IN /\ serial' = serial + 1
             /\ (now - since) * FreqDen > state.obstacle_frequency
             /\ now - since > OBSTACLE_FREQUENCY_MIN
             /\ state'.last_obstacle_time = now]_vars

C18_OrderedCollection ==
    /\ [](\A i \in 1..(Len(obstacles) - 1) :
            /\ obstacles[i].id < obstacles[i + 1].id
            /\ ~FxLess(obstacles[i + 1].x, obstacles[i].x))
    /\ [][\A i, j \in 1..Len(obstacles) :
            (j < i /\ InCollection(obstacles[j], obstacles'))
               => InCollection(obstacles[i], obstacles')]_vars

\* the oldest obstacle has just left; of the two that remain the later one is
\* the faster and has come closer than OBSTACLE_DISTANCE_MIN to the earlier
C18_Witness ==
    /\ RanUpdate /\ ev.pruned > 0 /\ Len(obstacles) >= 2
    /\ obstacles[2].speed > obstacles[1].speed
    /\ FxLess(obstacles[1].x, obstacles[2].x)
    /\ FxLess(obstacles[2].x, FxAddInt(obstacles[1].x, OBSTACLE_DISTANCE_MIN))

\* the player's rectangle and an obstacle's share a column of pixels
SameColumn(p, o) ==
    /\ Obstacle_get_rect(o).x < p.x + p.width
    /\ Obstacle_get_rect(o).x + o.width > p.x

\* the player settled at y against an obstacle of the given kind, at every
\* whole x from left of the screen to its right edge
ClearAt(y, is_air_obstacle) ==
    \A x \in (0 - 2 * OBSTACLE_WIDTH)..SCREEN_WIDTH :
       ~colliderect(Player_get_rect([Player_init EXCEPT !.y = y]),
                    Obstacle_get_rect([Obstacle_init(0, 0, is_air_obstacle)
                                         EXCEPT !.x = FxInt(x)]))

SettledPlayerClear == ClearAt(GroundY, TRUE) /\ ClearAt(AIR_HEIGHT, FALSE)

\* C19 -- lane separation: the rectangle of a player settled on the ground
\* overlaps no air obstacle's, and that of a player settled in the air no
\* ground obstacle's, at any x; after a tick with the player settled, every
\* obstacle that overlaps the player is of the player's lane, and if the tick
\* ended the run there is one.
C19_LaneSeparation ==
    /\ SettledPlayerClear
    /\ (RanUpdate /\ player.y \in {GroundY, AIR_HEIGHT}) =>
          /\ \A i \in 1..Len(obstacles) :
                colliderect(Player_get_rect(player), Obstacle_get_rect(obstacles[i]))
                   => (obstacles[i].is_air_obstacle <=> player.y = AIR_HEIGHT)
          /\ state.game_over =>
                \E i \in 1..Len(obstacles) :
                   /\ obstacles[i].is_air_obstacle <=> player.y = AIR_HEIGHT
                   /\ SameColumn(player, obstacles[i])

\* an air obstacle is right above the player, who is settled on the ground,
\* and the run goes on
C19_Witness ==
    /\ RanUpdate /\ ~state.game_over /\ player.y = GroundY
    /\ \E i \in 1..Len(obstacles) :
          obstacles[i].is_air_obstacle /\ SameColumn(player, obstacles[i])

\* ceil((GROUND_HEIGHT - PLAYER_HEIGHT - AIR_HEIGHT) / TRANSITION_SPEED)
TransitionTicks ==
    (GroundY - AIR_HEIGHT + TRANSITION_SPEED - 1) \div TRANSITION_SPEED

\* the player after n more RUNNING ticks with the signal held at s:
\* handle_events writes in_air, update moves the player
RECURSIVE Hold(_, _, _)
Hold(p, s, n) ==
    IF n = 0 THEN p
    ELSE Hold(Player_update([p EXCEPT !.in_air = s]), s, n - 1)

\* C20 -- lane transition completes: from every reachable player state, 8
\* ticks with the signal held leave y equal to target_y, the lane of the
\* signal, and every further such tick keeps it there; y is always within
\* AIR_HEIGHT..GROUND_HEIGHT - PLAYER_HEIGHT.
C20_TransitionCompletes ==
    /\ TransitionTicks = 8
    /\ AIR_HEIGHT <= player.y /\ player.y <= GroundY
    /\ \A s \in BOOLEAN :
          LET p8 == Hold(player, s, TransitionTicks) IN
          /\ p8.target_y = (IF s THEN AIR_HEIGHT ELSE GroundY)
          /\ p8.y = p8.target_y
          /\ Hold(p8, s, 1) = p8
          /\ Hold(player, s, TransitionTicks - 1).y # p8.y
                => Abs(player.y - p8.y) > (TransitionTicks - 1) * TRANSITION_SPEED

\* the run is 8 ticks old, the key was held in all of them, and the player
\* has arrived in the air lane
C20_Witness ==
    /\ RanUpdate /\ Phase(state) = "RUNNING" /\ ev.ticks = TransitionTicks
    /\ player.in_air /\ player.y = AIR_HEIGHT /\ player.target_y = AIR_HEIGHT
    /\ ev.y0 = AIR_HEIGHT + TRANSITION_SPEED

====
